---- MODULE Spec2Model ----
(***************************************************************************)
(* A model of robodoc.py: the image-difference pipeline (findcontours),    *)
(* the alpha-masked export (save_selected_contours), the display-to-       *)
(* original crop transform (CropDialog.get_crop_coordinates) and the       *)
(* handlers of InjuryDetectionApp.                                         *)
(*                                                                         *)
(* Images are pixel grids: [h, w, ch, px] with px[y][x] an 8-bit value     *)
(* (ch = 1) or a <<b, g, r>> triple (ch = 3); indices are 0-based as in    *)
(* the code.  Python's None is the empty tuple <<>> and a present value v  *)
(* is <<v>>.                                                               *)
(***************************************************************************)
EXTENDS Integers, Sequences, FiniteSets, TLC

VARIABLES
    injury_img,         \* InjuryDetectionApp.injury_img
    cropped_control,    \* InjuryDetectionApp.cropped_control
    result_img,         \* InjuryDetectionApp.result_img
    contours,           \* InjuryDetectionApp.contours
    threshvalue,        \* InjuryDetectionApp.threshvalue
    linestep,           \* InjuryDetectionApp.linestep
    crop_btn,           \* crop_btn.isEnabled()
    result_btn,         \* result_btn.isEnabled()
    save_btn,           \* save_btn.isEnabled()
    save_contour_btn,   \* save_contour_btn.isEnabled()
    disk,               \* the files written by cv2.imwrite, by path
    last,               \* the handler that ran last and what it showed
    args,               \* arguments of a direct call of a module function
    ret,                \* what that call returned
    pc                  \* "call" before the direct call, "done" after it,
                        \* "again" after a repeated call

appvars == <<injury_img, cropped_control, result_img, contours, threshvalue,
             linestep, crop_btn, result_btn, save_btn, save_contour_btn,
             disk, last>>
callvars == <<args, ret, pc>>
vars == <<injury_img, cropped_control, result_img, contours, threshvalue,
          linestep, crop_btn, result_btn, save_btn, save_contour_btn,
          disk, last, args, ret, pc>>

None == <<>>
Some(v) == <<v>>
Val(o) == o[1]

Min(a, b) == IF a < b THEN a ELSE b
Max(a, b) == IF a > b THEN a ELSE b
Abs(a) == IF a < 0 THEN 0 - a ELSE a

RECURSIVE SumTo(_, _)
\* f[0] + ... + f[n]
SumTo(f, n) == IF n < 0 THEN 0 ELSE f[n] + SumTo(f, n - 1)

(***************************************************************************)
(* Images                                                                  *)
(***************************************************************************)
Img(h, w, ch, px) == [h |-> h, w |-> w, ch |-> ch, px |-> px]

\* len(img.shape): 3 for a colour image, 2 for a single-channel one
ShapeLen(img) == IF img.ch = 1 THEN 2 ELSE 3

\* img.size == 0
IsEmptyImg(img) == img.h = 0 \/ img.w = 0

\* cv2.cvtColor(img, cv2.COLOR_BGR2GRAY) on one BGR pixel (8-bit fixed point)
Luma(p) == (p[1] * 1868 + p[2] * 9617 + p[3] * 4899 + 8192) \div 16384

\* cv2.cvtColor(img, cv2.COLOR_BGR2GRAY) of a 3-channel image
BGR2GRAY(img) ==
    Img(img.h, img.w, 1,
        [y \in 0..(img.h - 1) |-> [x \in 0..(img.w - 1) |-> Luma(img.px[y][x])]])

\* cv2.cvtColor(image, COLOR_BGR2GRAY) if len(image.shape) == 3 else image
ToGray(img) == IF ShapeLen(img) = 3 THEN BGR2GRAY(img) ELSE img

\* one channel value of a bilinear sample: the four neighbours weighted by
\* the fractional position (fx / dx, fy / dy), rounded to nearest
Lerp2(v00, v01, v10, v11, fx, dx, fy, dy) ==
    ((v00 * (dx - fx) + v01 * fx) * (dy - fy)
       + (v10 * (dx - fx) + v11 * fx) * fy
       + (dx * dy) \div 2) \div (dx * dy)

\* source index and fraction for destination index i when a length-sn axis is
\* resized to length dn: the source position is (i + 0.5) * sn / dn - 0.5
SrcPos(i, sn, dn) ==
    LET num == (2 * i + 1) * sn - dn
        den == 2 * dn
    IN  IF num <= 0 THEN [i0 |-> 0, i1 |-> 0, f |-> 0, d |-> den]
        ELSE LET q == num \div den
             IN  IF q >= sn - 1
                 THEN [i0 |-> sn - 1, i1 |-> sn - 1, f |-> 0, d |-> den]
                 ELSE [i0 |-> q, i1 |-> q + 1, f |-> num - q * den, d |-> den]

\* cv2.resize(img, (w, h)) with the default bilinear interpolation
Resize(img, w, h) ==
    LET sx == [x \in 0..(w - 1) |-> SrcPos(x, img.w, w)]
        sy == [y \in 0..(h - 1) |-> SrcPos(y, img.h, h)]
        At(y, x, c) ==
            LET a == sy[y]
                b == sx[x]
                P(i, j) == IF img.ch = 1 THEN img.px[i][j] ELSE img.px[i][j][c]
            IN  Lerp2(P(a.i0, b.i0), P(a.i0, b.i1), P(a.i1, b.i0), P(a.i1, b.i1),
                      b.f, b.d, a.f, a.d)
    IN  IF img.w = w /\ img.h = h THEN img
        ELSE Img(h, w, img.ch,
                 [y \in 0..(h - 1) |-> [x \in 0..(w - 1) |->
                     IF img.ch = 1 THEN At(y, x, 1)
                     ELSE <<At(y, x, 1), At(y, x, 2), At(y, x, 3)>>]])

\* cv2.absdiff of two single-channel images of equal size
AbsDiff(a, b) ==
    Img(a.h, a.w, 1,
        [y \in 0..(a.h - 1) |-> [x \in 0..(a.w - 1) |-> Abs(a.px[y][x] - b.px[y][x])]])

\* kernel size of cv2.GaussianBlur(difference, (19, 19), ...)
KSize == 19
KRadius == (KSize - 1) \div 2

\* the 19-tap Gaussian kernel for sigma = 4 (the third positional argument,
\* cv2.BORDER_DEFAULT = 4, is sigmaX), in 8-bit fixed point: the taps sum to 256
GaussKernel == <<2, 4, 6, 8, 12, 16, 19, 23, 25, 26, 25, 23, 19, 16, 12, 8, 6, 4, 2>>
KernelSum == 256

RECURSIVE Reflect101(_, _)
\* cv2.borderInterpolate(p, len, BORDER_REFLECT_101), the default border
Reflect101(p, len) ==
    IF len = 1 THEN 0
    ELSE IF p < 0 THEN Reflect101(0 - p, len)
    ELSE IF p >= len THEN Reflect101(2 * len - 2 - p, len)
    ELSE p

\* cv2.GaussianBlur(img, (19, 19), 4): a separable convolution, rows then
\* columns, rounded once to 8 bit
GaussianBlur(img) ==
    LET rx == [x \in 0..(img.w - 1) |-> [k \in 0..(KSize - 1) |->
                  Reflect101(x + k - KRadius, img.w)]]
        ry == [y \in 0..(img.h - 1) |-> [k \in 0..(KSize - 1) |->
                  Reflect101(y + k - KRadius, img.h)]]
        hp == [y \in 0..(img.h - 1) |-> [x \in 0..(img.w - 1) |->
                  SumTo([k \in 0..(KSize - 1) |->
                            GaussKernel[k + 1] * img.px[y][rx[x][k]]], KSize - 1)]]
    IN  Img(img.h, img.w, 1,
            [y \in 0..(img.h - 1) |-> [x \in 0..(img.w - 1) |->
                (SumTo([k \in 0..(KSize - 1) |->
                           GaussKernel[k + 1] * hp[ry[y][k]][x]], KSize - 1)
                   + (KernelSum * KernelSum) \div 2) \div (KernelSum * KernelSum)]])

\* cv2.THRESH_BINARY_INV in place of cv2.THRESH_BINARY
ThreshPixelInv(v, tval) == IF v > tval THEN 0 ELSE 255

\* one pixel of cv2.threshold(.., threshvalue, 255, cv2.THRESH_BINARY)
ThreshPixel(v, tval) == IF v > tval THEN 255 ELSE 0

\* cv2.threshold(blur, threshvalue, 255, cv2.THRESH_BINARY)[1]
Threshold(img, tval) ==
    Img(img.h, img.w, 1,
        [y \in 0..(img.h - 1) |-> [x \in 0..(img.w - 1) |->
            ThreshPixel(img.px[y][x], tval)]])

\* the points <<x, y>> of an h-by-w grid
Points(h, w) == (0..(w - 1)) \X (0..(h - 1))

\* the foreground points of a binary image
Foreground(img) == {p \in Points(img.h, img.w) : img.px[p[2]][p[1]] # 0}

N4(p) == {<<p[1] - 1, p[2]>>, <<p[1] + 1, p[2]>>, <<p[1], p[2] - 1>>, <<p[1], p[2] + 1>>}
N8(p) == {<<p[1] + dx, p[2] + dy>> : dx \in {-1, 0, 1}, dy \in {-1, 0, 1}} \ {p}

RECURSIVE Grow4(_, _)
\* the points of `free` that a 4-connected path inside `free` joins to `seen`
Grow4(seen, free) ==
    LET more == {q \in free \ seen : N4(q) \cap seen # {}}
    IN  IF more = {} THEN seen ELSE Grow4(seen \cup more, free)

RECURSIVE Grow8(_, _)
\* the same along 8-connected paths
Grow8(seen, free) ==
    LET more == {q \in free \ seen : N8(q) \cap seen # {}}
    IN  IF more = {} THEN seen ELSE Grow8(seen \cup more, free)

\* the points of the frame of an h-by-w grid
Frame(h, w) == {p \in Points(h, w) : p[1] \in {0, w - 1} \/ p[2] \in {0, h - 1}}

\* the points an outside observer reaches without crossing `wall`
Outside(h, w, wall) ==
    LET free == Points(h, w) \ wall
    IN  Grow4(Frame(h, w) \cap free, free)

RECURSIVE Components(_)
\* the 8-connected components of a point set
Components(S) ==
    IF S = {} THEN {}
    ELSE LET p == CHOOSE q \in S : TRUE
             c == Grow8({p}, S)
         IN  {c} \cup Components(S \ c)

\* the outer border of component c: its points next to the outside
OuterBorder(c, out, h, w) ==
    {p \in c : (N4(p) \cap out # {}) \/ p \in Frame(h, w)}

\* cv2.findContours(thresh, cv2.RETR_EXTERNAL, cv2.CHAIN_APPROX_NONE)[0]:
\* one contour, the full set of its outer border points, per foreground
\* component that no other component encloses
FindContours(thresh) ==
    LET fg == Foreground(thresh)
        out == Outside(thresh.h, thresh.w, fg)
        bs == {OuterBorder(c, out, thresh.h, thresh.w) : c \in Components(fg)}
    IN  bs \ {{}}

\* the points cv2.drawContours(.., contours, -1, .., thickness=cv2.FILLED)
\* paints on an h-by-w image: the borders and everything they enclose
FilledPoints(cs, h, w) ==
    LET wall == (UNION cs) \cap Points(h, w)
    IN  IF cs = {} THEN {} ELSE Points(h, w) \ Outside(h, w, wall)

\* the points cv2.drawContours(.., contours, -1, .., 5) paints: those within
\* half the thickness of a border point
OutlinePoints(cs, h, w) ==
    LET wall == UNION cs
    IN  {p \in Points(h, w) : \E q \in wall :
            (p[1] - q[1]) * (p[1] - q[1]) + (p[2] - q[2]) * (p[2] - q[2]) <= 6}

\* img with the points of S set to value v in every channel
Paint(img, S, v) ==
    Img(img.h, img.w, img.ch,
        [y \in 0..(img.h - 1) |-> [x \in 0..(img.w - 1) |->
            IF <<x, y>> \in S
            THEN (IF img.ch = 1 THEN v ELSE <<v, v, v>>)
            ELSE img.px[y][x]]])

\* np.zeros_like(img) / np.zeros(img.shape, dtype=np.uint8)
Zeros(img) ==
    Img(img.h, img.w, img.ch,
        [y \in 0..(img.h - 1) |-> [x \in 0..(img.w - 1) |->
            IF img.ch = 1 THEN 0 ELSE <<0, 0, 0>>]])

\* cv2.bitwise_and(img, mask) for a mask whose channels are 0 or 255
BitwiseAnd(img, mask) ==
    Img(img.h, img.w, img.ch,
        [y \in 0..(img.h - 1) |-> [x \in 0..(img.w - 1) |->
            IF mask.px[y][x] = (IF mask.ch = 1 THEN 255 ELSE <<255, 255, 255>>)
            THEN img.px[y][x]
            ELSE (IF img.ch = 1 THEN 0 ELSE <<0, 0, 0>>)]])

\* np.hstack([a, b, c]) of three images of equal height and channels
HStack(a, b, c) ==
    Img(a.h, a.w + b.w + c.w, a.ch,
        [y \in 0..(a.h - 1) |-> [x \in 0..(a.w + b.w + c.w - 1) |->
            IF x < a.w THEN a.px[y][x]
            ELSE IF x < a.w + b.w THEN b.px[y][x - a.w]
            ELSE c.px[y][x - a.w - b.w]]])

(***************************************************************************)
(* findcontours                                                            *)
(***************************************************************************)
RECURSIVE ColumnPoints(_, _, _)
\* [(x, y) for y in np.where(col_pixels > 0)[0]], rows y..h-1 of column x
ColumnPoints(gray, x, y) ==
    IF y >= gray.h THEN <<>>
    ELSE (IF gray.px[y][x] > 0 THEN <<(<<x, y>>)>> ELSE <<>>)
           \o ColumnPoints(gray, x, y + 1)

RECURSIVE LineCoordinates(_, _)
\* the loop of lines 115-120 from column x on: one candidate line per column
\* of result_gray that holds a non-zero pixel
LineCoordinates(gray, x) ==
    IF x >= gray.w THEN <<>>
    ELSE LET col == ColumnPoints(gray, x, 0)
         IN  (IF col # <<>> THEN <<col>> ELSE <<>>) \o LineCoordinates(gray, x + 1)

\* a stride that is one short: max(1, linestep - 1)
LineStrideShort(lstep) == Max(1, lstep - 1)

\* the step of range(0, len(line_coordinates_np), max(1, linestep))
LineStride(lstep) == Max(1, lstep)

RECURSIVE SelectLines(_, _, _)
\* the loop of lines 124-127 from index i (0-based) on
SelectLines(cands, i, lstep) ==
    IF i >= Len(cands) THEN <<>>
    ELSE <<cands[i + 1]>> \o SelectLines(cands, i + LineStride(lstep), lstep)

\* the points cv2.polylines(.., lines, isClosed=False, .., thickness=2) paints:
\* each line joins its points top to bottom
PolylinePoints(lines, h, w) ==
    {p \in Points(h, w) : \E i \in 1..Len(lines) :
        LET l == lines[i]
        IN  /\ Abs(p[1] - l[1][1]) <= 1
            /\ p[2] >= l[1][2]
            /\ p[2] <= l[Len(l)][2]}

\* the outcome of a call: ok, the exception raised (err), the returned pair
\* (combined, contours; None when the call raised), the points of the two
\* arrays the caller passed that the call painted over (written1, written2)
\* and, for inspection, the locals the call had computed when it ended
Outcome(ok, err, combined, cs, locals) ==
    [ok |-> ok, err |-> err, combined |-> combined, contours |-> cs,
     written1 |-> locals.written1, written2 |-> locals.written2,
     difference |-> locals.difference, blur |-> locals.blur,
     thresh |-> locals.thresh, found |-> locals.found, mask |-> locals.mask,
     line_coordinates |-> locals.line_coordinates, lines |-> locals.lines]

NoLocals ==
    [written1 |-> {}, written2 |-> {}, difference |-> None, blur |-> None, thresh |-> None, found |-> {},
     mask |-> {}, line_coordinates |-> <<>>, lines |-> <<>>]

\* a call that raised e before it computed anything
Raised(e) == Outcome(FALSE, e, None, None, NoLocals)

\* a findcontours that draws the outlines into the array it was passed
DrawInPlace(outline) == outline

\* the points of the caller's image1 that cv2.drawContours(contoured, ..)
\* at line 104 paints over, given the points of the outlines: none, it
\* draws into contoured = original.copy(), and original = image1.copy()
\* (line 88)
DrawOnCopy(outline) == {}

\* an array with the points pts painted black, (0, 0, 0)
ApplyWrites(image, pts) ==
    IF pts = {} THEN image ELSE Some(Paint(Val(image), pts, 0))

\* findcontours(image1, image2, threshvalue, linestep); image1 and image2
\* are None or Some(image)
findcontours(image1, image2, tval, lstep) ==
    IF image1 = None \/ image2 = None THEN Raised("ValueError")
    ELSE IF IsEmptyImg(Val(image1)) \/ IsEmptyImg(Val(image2)) THEN Raised("cv2.error")
    ELSE
    LET original == Val(image1)
        resized == Resize(Val(image2), original.w, original.h)
        gray_image1 == ToGray(original)
        gray_image2 == ToGray(resized)
        difference == AbsDiff(gray_image2, gray_image1)
        blur == GaussianBlur(difference)
        thresh == Threshold(blur, tval)
        cs == FindContours(thresh)
        contoured == Paint(original, OutlinePoints(cs, original.h, original.w), 0)
        filled == FilledPoints(cs, original.h, original.w)
        mask == Paint(Zeros(original), filled, 255)
        result == BitwiseAnd(original, mask)
        \* nothing writes to image2: line 87 binds the name to the new array
        \* cv2.resize returns
        upto111 == [written1 |-> DrawOnCopy(OutlinePoints(cs, original.h, original.w)),
                    written2 |-> {},
                    difference |-> Some(difference), blur |-> Some(blur),
                    thresh |-> Some(thresh), found |-> cs, mask |-> filled,
                    line_coordinates |-> <<>>, lines |-> <<>>]
    IN  \* cv2.cvtColor(result, cv2.COLOR_BGR2GRAY) raises on one channel
        IF result.ch # 3 THEN Outcome(FALSE, "cv2.error", None, None, upto111)
        ELSE
        LET result_gray == BGR2GRAY(result)
            line_coordinates == LineCoordinates(result_gray, 0)
            lines == SelectLines(line_coordinates, 0, lstep)
            lined == IF lines # <<>>
                     THEN Paint(contoured, PolylinePoints(lines, original.h, original.w), 255)
                     ELSE contoured
        IN  Outcome(TRUE, "", Some(HStack(original, contoured, lined)), Some(cs),
                    [upto111 EXCEPT !.line_coordinates = line_coordinates,
                                    !.lines = lines])

(***************************************************************************)
(* save_selected_contours (module function) and cv2.imwrite                *)
(***************************************************************************)
\* the destinations a file dialog can hand back; "" is a cancelled dialog
GoodPath == "out.png"
ReadOnlyPath == "/readonly/out.png"
NoWriterPath == "out.xyz"
Paths == {GoodPath, ReadOnlyPath, NoWriterPath}

\* cv2.imwrite(path, img): True ("ok") after writing, False ("failed") when
\* the destination cannot be written, cv2.error ("raise") when no encoder
\* exists for the extension
Imwrite(path) ==
    IF path = GoodPath THEN "ok"
    ELSE IF path = ReadOnlyPath THEN "failed"
    ELSE "raise"

\* save_selected_contours(image, contours, filepath): the mask, the RGBA
\* image, and the write, whose return value the function drops; cs is the
\* contour set (drawContours takes None as no contours); written is the
\* points of the caller's array the call painted over (none: the mask is a
\* new array, np.zeros, and cv2.bitwise_and, cv2.split and cv2.merge return
\* new arrays)
save_selected_contours(image, cs, filepath) ==
    LET set == IF cs = None THEN {} ELSE Val(cs)
        filled == FilledPoints(set, image.h, image.w)
        mask == Paint(Zeros(image), filled, 255)
        result == BitwiseAnd(image, mask)
    IN  IF image.ch # 3
        THEN [raised |-> TRUE, write |-> "none", alpha |-> {}, written |-> {}]
        ELSE [raised |-> Imwrite(filepath) = "raise",
              write |-> Imwrite(filepath),
              alpha |-> filled, written |-> {}]

(***************************************************************************)
(* CropDialog                                                              *)
(***************************************************************************)
RECURSIVE Gcd(_, _)
Gcd(a, b) == IF b = 0 THEN a ELSE Gcd(b, a % b)

RECURSIVE IsPow2(_)
IsPow2(k) == k = 1 \/ (k > 1 /\ k % 2 = 0 /\ IsPow2(k \div 2))

\* the double n / d is the exact quotient only when the reduced denominator
\* is a power of two
ExactQuotient(n, d) == IsPow2(d \div Gcd(n, d))

\* int(a * scale) for the double scale = n / d.  Python's int() truncates
\* toward zero.  When the quotient is rounded and the exact product is a
\* whole number N, the double product may fall just below N, and int()
\* then gives N - 1: ulp (0 or 1) is that rounding
TruncMulDiv(a, n, d, ulp) ==
    LET m == Abs(a) * n
        q == m \div d
        below == IF ~ExactQuotient(n, d) /\ m % d = 0 /\ q > 0 THEN ulp ELSE 0
    IN  IF a >= 0 THEN q - below ELSE 0 - (q - below)

\* the limits CropDialog.__init__ hands to safe_image_to_qpixmap
MaxDisplayW == 800
MaxDisplayH == 600

\* the size of the pixmap safe_image_to_qpixmap(cv_img, 800, 600) returns:
\* scale = min(800 / w if w > 800 else 1.0, 600 / h if h > 600 else 1.0),
\* and (int(w * scale), int(h * scale)) when scale < 1.0; ulp[1..2] are the
\* roundings of the two products
DisplaySize(ow, oh, ulp) ==
    LET byW == ow > MaxDisplayW
        byH == oh > MaxDisplayH
        \* scale = sn / sd
        useW == byW /\ (~byH \/ MaxDisplayW * oh <= MaxDisplayH * ow)
        sn == IF useW THEN MaxDisplayW ELSE IF byH THEN MaxDisplayH ELSE 1
        sd == IF useW THEN ow ELSE IF byH THEN oh ELSE 1
    IN  [w |-> TruncMulDiv(ow, sn, sd, ulp[1]), h |-> TruncMulDiv(oh, sn, sd, ulp[2])]

Rect(x, y, w, h) == [x |-> x, y |-> y, width |-> w, height |-> h]

\* QRect.isEmpty()
RectIsEmpty(r) == r.width <= 0 \/ r.height <= 0

\* get_crop_coordinates without the scale factors: the display rectangle
\* itself, clamped
get_crop_coordinates_unscaled(crop_rect, ow, oh, dw, dh, ulp) ==
    IF crop_rect = None \/ RectIsEmpty(Val(crop_rect)) THEN None
    ELSE LET r == Val(crop_rect)
             x == Min(Max(0, r.x), ow - 1)
             y == Min(Max(0, r.y), oh - 1)
         IN  Some(<<x, y, Min(r.width, ow - x), Min(r.height, oh - y)>>)

\* get_crop_coordinates without lines 274-275, the clamps of w and h
get_crop_coordinates_unclamped(crop_rect, ow, oh, dw, dh, ulp) ==
    IF crop_rect = None \/ RectIsEmpty(Val(crop_rect)) THEN None
    ELSE LET r == Val(crop_rect)
             x0 == Max(0, TruncMulDiv(r.x, ow, dw, ulp[1]))
             y0 == Max(0, TruncMulDiv(r.y, oh, dh, ulp[2]))
         IN  Some(<<Min(x0, ow - 1), Min(y0, oh - 1),
                    TruncMulDiv(r.width, ow, dw, ulp[3]),
                    TruncMulDiv(r.height, oh, dh, ulp[4])>>)

\* CropDialog.get_crop_coordinates() for the rubber-band rectangle crop_rect
\* (None or Some(rect), display coordinates), an original of ow x oh pixels
\* shown as a pixmap of dw x dh: None or Some(<<x, y, w, h>>); ulp[1..4]
\* are the roundings of the four products
get_crop_coordinates(crop_rect, ow, oh, dw, dh, ulp) ==
    IF crop_rect = None \/ RectIsEmpty(Val(crop_rect)) THEN None
    ELSE LET r == Val(crop_rect)
             x0 == Max(0, TruncMulDiv(r.x, ow, dw, ulp[1]))
             y0 == Max(0, TruncMulDiv(r.y, oh, dh, ulp[2]))
             w0 == TruncMulDiv(r.width, ow, dw, ulp[3])
             h0 == TruncMulDiv(r.height, oh, dh, ulp[4])
             x == Min(x0, ow - 1)
             y == Min(y0, oh - 1)
             w == Min(w0, ow - x)
             h == Min(h0, oh - y)
         IN  Some(<<x, y, w, h>>)

\* img[y:y+h, x:x+w].copy(); the slice ends are clipped to the image
Crop(img, x, y, w, h) ==
    LET x1 == Min(x + w, img.w)
        y1 == Min(y + h, img.h)
        cw == Max(0, x1 - x)
        chh == Max(0, y1 - y)
    IN  Img(chh, cw, img.ch,
            [j \in 0..(chh - 1) |-> [i \in 0..(cw - 1) |-> img.px[y + j][x + i]]])

(***************************************************************************)
(* InjuryDetectionApp                                                      *)
(***************************************************************************)
\* the initial slider values, InjuryDetectionApp.__init__
InitThresh == 50
InitLineStep == 10
\* the slider ranges, setup_ui
ThreshMin == 3
ThreshMax == 190
LineStepMin == 1
LineStepMax == 50
\* crop_control rejects w <= 10 or h <= 10
MinCropSide == 10

\* what a handler leaves for the observer: which handler ran, the title of
\* the message box it showed ("" for none), how its file or crop dialog ended
\* ("accepted", "rejected" for a cancelled one, "none" when none opened), what
\* cv2.imwrite did ("none" when it was not called) and whether the module
\* function the handler called raised; coords is the rectangle crop_control
\* got from the dialog (None in every other handler)
Seen(op, msg, dialog, write, raised, coords) ==
    [op |-> op, msg |-> msg, dialog |-> dialog, write |-> write, raised |-> raised,
     coords |-> coords]

Done(op, msg, dialog, write, raised) == Seen(op, msg, dialog, write, raised, None)

\* an image of one colour
Uniform(h, w, v) ==
    Img(h, w, 3, [y \in 0..(h - 1) |-> [x \in 0..(w - 1) |-> <<v, v, v>>]])

\* skin of colour bg with the columns c0..c1 of colour fg
Band(h, w, bg, fg, c0, c1) ==
    Img(h, w, 3, [y \in 0..(h - 1) |-> [x \in 0..(w - 1) |->
        IF x >= c0 /\ x <= c1 THEN <<fg, fg, fg>> ELSE <<bg, bg, bg>>]])

\* the sizes of the photos tried
PhotoW == 12
PhotoH == 11
TallPhotoH == 20

\* the photos the operator can pick in the file dialog: healthy skin, and
\* skin with a dark injury
HealthyPhoto == Uniform(TallPhotoH, PhotoW, 200)
InjuryPhoto == Band(PhotoH, PhotoW, 200, 0, 6, 8)
FileNames == {"healthy.png", "injury.png", "notes.txt"}

\* cv2.imread(path): the decoded 3-channel image, or None for a file that is
\* no image
imread(path) ==
    IF path = "healthy.png" THEN Some(HealthyPhoto)
    ELSE IF path = "injury.png" THEN Some(InjuryPhoto)
    ELSE None

\* the rubber-band rectangles the operator can drag in the crop dialog
\* (display coordinates; the band may leave the picture), and a click
\* without a drag, which leaves an empty rectangle
RectChoices ==
    {Rect(0, 0, 12, 11), Rect(1, 0, 11, 11), Rect(0, 0, 11, 11),
     Rect(0, 0, 10, 20), Rect(0, 0, 11, 10), Rect(-3, -2, 14, 13),
     Rect(5, 5, 0, 0)}

\* the slider positions the operator moves to
ThreshVals == {ThreshMin, InitThresh}
LineStepVals == {LineStepMin, InitLineStep}

\* the state after InjuryDetectionApp.__init__ and setup_ui
AppInit ==
    /\ injury_img = None
    /\ cropped_control = None
    /\ result_img = None
    /\ contours = None
    /\ threshvalue = InitThresh
    /\ linestep = InitLineStep
    /\ crop_btn = FALSE
    /\ result_btn = FALSE
    /\ save_btn = FALSE
    /\ save_contour_btn = FALSE
    /\ disk = [p \in Paths |-> "absent"]
    /\ last = Done("__init__", "", "none", "none", FALSE)

\* the photos imread can return
AppImages == {Val(imread(f)) : f \in {g \in FileNames : imread(g) # None}}

NoUlp == <<0, 0, 0, 0>>

\* the test with the floor itself accepted: w < 10 or h < 10
TooSmallStrict(w, h) == w < MinCropSide \/ h < MinCropSide

\* the test of crop_control, line 660
TooSmall(w, h) == w <= MinCropSide \/ h <= MinCropSide

\* the control regions crop_control can store for photo img (the photos fit
\* the display, so scale_x = scale_y = 1.0 and no product is rounded)
AppCrops(img) ==
    LET ds == DisplaySize(img.w, img.h, NoUlp)
        cs == {get_crop_coordinates(Some(r), img.w, img.h, ds.w, ds.h, NoUlp) :
                  r \in RectChoices} \ {None}
    IN  {Crop(img, Val(c)[1], Val(c)[2], Val(c)[3], Val(c)[4]) :
            c \in {d \in cs : ~TooSmall(Val(d)[3], Val(d)[4])}}

\* findcontours on every argument tuple the application can pass, computed
\* once
AnalysisTable ==
    [k \in {<<Some(i), Some(c), t, l>> :
               i \in AppImages, c \in UNION {AppCrops(j) : j \in AppImages},
               t \in ThreshVals, l \in LineStepVals} |->
        IF k[2][1] \in AppCrops(k[1][1])
        THEN findcontours(k[1], k[2], k[3], k[4])
        ELSE Raised("unused")]

\* the call findcontours(self.injury_img, self.cropped_control,
\* self.threshvalue, self.linestep) of show_result; mem_ok is FALSE when an
\* allocation inside it fails (MemoryError / cv2.error)
Analyse(image1, image2, tval, lstep, mem_ok) ==
    IF ~mem_ok THEN Raised("MemoryError")
    ELSE AnalysisTable[<<image1, image2, tval, lstep>>]

\* an upload that leaves the Analyze button as it was
UploadKeepsAnalyze ==
    /\ cropped_control' = None
    /\ UNCHANGED result_btn
    /\ save_btn' = FALSE
    /\ save_contour_btn' = FALSE

\* an upload that leaves the two export buttons as they were
UploadKeepsExports ==
    /\ cropped_control' = None
    /\ result_btn' = FALSE
    /\ UNCHANGED <<save_btn, save_contour_btn>>

\* the "Reset state" block of upload_injury, lines 629-635
UploadResets ==
    /\ cropped_control' = None
    /\ result_btn' = FALSE
    /\ save_btn' = FALSE
    /\ save_contour_btn' = FALSE

\* upload_injury, lines 598-642
upload_injury ==
    \E path \in FileNames \cup {""} :
        LET img == imread(path)
            quiet(msg, dialog) ==
                /\ UNCHANGED <<injury_img, cropped_control, crop_btn, result_btn,
                               save_btn, save_contour_btn>>
                /\ last' = Done("upload_injury", msg, dialog, "none", FALSE)
        IN  /\ IF path = "" THEN quiet("", "rejected")
               ELSE IF img = None THEN quiet("Error", "accepted")
               ELSE IF ShapeLen(Val(img)) # 3 \/ Val(img).ch # 3
                    THEN quiet("Error", "accepted")
               ELSE /\ injury_img' = img
                    /\ crop_btn' = TRUE
                    /\ UploadResets
                    /\ last' = Done("upload_injury", "", "accepted", "none", FALSE)
            /\ UNCHANGED <<result_img, contours, threshvalue, linestep, disk, callvars>>

\* a rejection that also drops the control region selected before
CropRejectedResets(msg, dialog, coords) ==
    /\ cropped_control' = None
    /\ result_btn' = FALSE
    /\ last' = Seen("crop_control", msg, dialog, "none", FALSE, coords)

\* the returns of crop_control that select nothing
CropRejected(msg, dialog, coords) ==
    /\ UNCHANGED <<cropped_control, result_btn>>
    /\ last' = Seen("crop_control", msg, dialog, "none", FALSE, coords)

\* crop_control, lines 644-682 (the button is enabled)
crop_control ==
    /\ crop_btn
    /\ \E accepted \in BOOLEAN, rect \in {Some(r) : r \in RectChoices} \cup {None} :
        IF injury_img = None THEN CropRejected("", "none", None)
        ELSE IF ~accepted THEN rect = None /\ CropRejected("", "rejected", None)
        ELSE
        LET img == Val(injury_img)
            ds == DisplaySize(img.w, img.h, NoUlp)
            coords == get_crop_coordinates(rect, img.w, img.h, ds.w, ds.h, NoUlp)
        IN  IF coords = None THEN CropRejected("No Selection", "accepted", None)
            ELSE
            LET x == Val(coords)[1]
                y == Val(coords)[2]
                w == Val(coords)[3]
                h == Val(coords)[4]
                crop == Crop(img, x, y, w, h)
            IN  IF TooSmall(w, h) THEN CropRejected("Invalid Selection", "accepted", coords)
                ELSE /\ cropped_control' = Some(crop)
                     /\ IF IsEmptyImg(crop)
                        THEN /\ UNCHANGED result_btn
                             /\ last' = Seen("crop_control", "Crop Error", "accepted",
                                             "none", FALSE, coords)
                        ELSE /\ result_btn' = TRUE
                             /\ last' = Seen("crop_control", "Success", "accepted",
                                             "none", FALSE, coords)
    /\ UNCHANGED <<injury_img, result_img, contours, threshvalue, linestep, crop_btn,
                   save_btn, save_contour_btn, disk, callvars>>

\* update_thresh(val): the slider signals a changed value
update_thresh ==
    \E val \in ThreshVals \ {threshvalue} :
        /\ threshvalue' = val
        /\ last' = Done("update_thresh", "", "none", "none", FALSE)
        /\ UNCHANGED <<injury_img, cropped_control, result_img, contours, linestep,
                       crop_btn, result_btn, save_btn, save_contour_btn, disk, callvars>>

\* update_line(val)
update_line ==
    \E val \in LineStepVals \ {linestep} :
        /\ linestep' = val
        /\ last' = Done("update_line", "", "none", "none", FALSE)
        /\ UNCHANGED <<injury_img, cropped_control, result_img, contours, threshvalue,
                       crop_btn, result_btn, save_btn, save_contour_btn, disk, callvars>>

\* the body of show_result's try block once findcontours has returned r,
\* lines 705-724
ShowResultDone(r) ==
    /\ result_img' = r.combined
    /\ contours' = r.contours
    /\ save_btn' = TRUE
    /\ save_contour_btn' = TRUE
    /\ last' = Done("show_result", "Analysis Complete", "none", "none", FALSE)

\* an except block that drops the stored composite
ShowResultFailedClears(r) ==
    /\ result_img' = None
    /\ UNCHANGED <<contours, save_btn, save_contour_btn>>
    /\ last' = Done("show_result", "Processing Error", "none", "none", TRUE)

\* show_result's except block, lines 726-730
ShowResultFailed(r) ==
    /\ UNCHANGED <<result_img, contours, save_btn, save_contour_btn>>
    /\ last' = Done("show_result", "Processing Error", "none", "none", TRUE)

\* show_result, lines 692-730 (the button is enabled)
show_result ==
    /\ result_btn
    /\ \E mem_ok \in BOOLEAN :
        IF injury_img = None \/ cropped_control = None
        THEN /\ mem_ok
             /\ UNCHANGED <<injury_img, cropped_control, result_img, contours,
                            save_btn, save_contour_btn>>
             /\ last' = Done("show_result", "", "none", "none", FALSE)
        ELSE LET r == Analyse(injury_img, cropped_control, threshvalue, linestep, mem_ok)
             IN  \* the two arrays passed, as the call leaves them
                 /\ injury_img' = ApplyWrites(injury_img, r.written1)
                 /\ cropped_control' = ApplyWrites(cropped_control, r.written2)
                 /\ IF r.ok THEN ShowResultDone(r) ELSE ShowResultFailed(r)
    /\ UNCHANGED <<threshvalue, linestep, crop_btn, result_btn, disk, callvars>>

\* a save_result that drops cv2.imwrite's return value
SaveResultMsgUnchecked(write) ==
    IF write = "raise" THEN "Export Error" ELSE "Export Successful"

\* the message box save_result shows for what cv2.imwrite did, lines 742-749
SaveResultMsg(write) ==
    IF write = "ok" THEN "Export Successful" ELSE "Export Error"

\* save_result, lines 732-749 (the button is enabled)
save_result ==
    /\ save_btn
    /\ \E path \in Paths \cup {""} :
        IF result_img = None \/ path = ""
        THEN /\ UNCHANGED disk
             /\ last' = Done("save_result", "",
                             IF result_img = None THEN "none" ELSE "rejected",
                             "none", FALSE)
        ELSE /\ disk' = IF Imwrite(path) = "ok"
                        THEN [disk EXCEPT ![path] = "composite"] ELSE disk
             /\ last' = Done("save_result", SaveResultMsg(Imwrite(path)), "accepted",
                             Imwrite(path), FALSE)
    /\ UNCHANGED <<injury_img, cropped_control, result_img, contours, threshvalue,
                   linestep, crop_btn, result_btn, save_btn, save_contour_btn, callvars>>

\* the message box the handler save_selected_contours shows after the call
\* of the module function returned or raised, lines 761-765
ExportMsg(call) ==
    IF call.raised THEN "Export Error" ELSE "Export Successful"

\* InjuryDetectionApp.save_selected_contours, lines 751-765 (the button is
\* enabled)
app_save_selected_contours ==
    /\ save_contour_btn
    /\ \E path \in Paths \cup {""} :
        IF injury_img = None \/ contours = None \/ path = ""
        THEN /\ UNCHANGED <<injury_img, disk>>
             /\ last' = Done("save_selected_contours", "",
                             IF injury_img = None \/ contours = None
                             THEN "none" ELSE "rejected",
                             "none", FALSE)
        ELSE LET call == save_selected_contours(Val(injury_img), contours, path)
             IN  /\ injury_img' = ApplyWrites(injury_img, call.written)
                 /\ disk' = IF call.write = "ok"
                             THEN [disk EXCEPT ![path] = "rgba"] ELSE disk
                 /\ last' = Done("save_selected_contours", ExportMsg(call), "accepted",
                                 call.write, call.raised)
    /\ UNCHANGED <<cropped_control, result_img, contours, threshvalue,
                   linestep, crop_btn, result_btn, save_btn, save_contour_btn, callvars>>

Init ==
    /\ AppInit
    /\ args = None
    /\ ret = None
    /\ pc = "app"

Next ==
    \/ upload_injury
    \/ crop_control
    \/ update_thresh
    \/ update_line
    \/ show_result
    \/ save_result
    \/ app_save_selected_contours

Spec == Init /\ [][Next]_vars

(***************************************************************************)
(* findcontours called directly                                            *)
(***************************************************************************)
\* the largest line_step tried
MaxStep == 4
\* the size of the subjects tried
FcH == 2
FcW == 16

\* a single-channel image of one value
GrayUniform(h, w, v) ==
    Img(h, w, 1, [y \in 0..(h - 1) |-> [x \in 0..(w - 1) |-> v]])

FcSubjects ==
    {Band(FcH, FcW, 200, 40, 0, 2), Band(FcH, FcW, 200, 0, 5, 9),
     Band(FcH + 1, FcW - 2, 200, 90, 12, 13), Uniform(FcH, FcW, 200),
     GrayUniform(FcH, FcW, 200)}

FcControls ==
    {Uniform(1, 1, 200), Uniform(3, 5, 200), GrayUniform(FcH, FcW, 200)}

FcThreshVals == {ThreshMin, 20, InitThresh, ThreshMax}

\* the argument tuples tried: a subject or None, a control (one of the
\* controls, the subject itself, or None), a threshold, a line_step
FcArgs ==
    {<<a, b, t, k>> :
        a \in {Some(i) : i \in FcSubjects} \cup {None},
        b \in {Some(i) : i \in FcControls \cup FcSubjects} \cup {None},
        t \in FcThreshVals, k \in (-1)..MaxStep}

FcInit ==
    /\ AppInit
    /\ args \in {x \in FcArgs : x[2] = None \/ x[2][1] \in FcControls \/ x[2] = x[1]}
    /\ ret = None
    /\ pc = "call"

\* combined, contours = findcontours(image1, image2, threshvalue, linestep)
CallFindcontours ==
    /\ pc = "call"
    /\ ret' = Some(findcontours(args[1], args[2], args[3], args[4]))
    /\ pc' = "done"
    /\ UNCHANGED <<args, appvars>>

\* the same call again with the images held fixed and a higher threshold
RaiseThreshold ==
    /\ pc \in {"done", "again"}
    /\ \E t \in FcThreshVals :
        /\ t > args[3]
        /\ args' = <<args[1], args[2], t, args[4]>>
        /\ ret' = Some(findcontours(args[1], args[2], t, args[4]))
    /\ pc' = "again"
    /\ UNCHANGED appvars

FcNext == CallFindcontours \/ RaiseThreshold

SpecFC == FcInit /\ [][FcNext]_vars

(***************************************************************************)
(* CropDialog.get_crop_coordinates called directly                         *)
(***************************************************************************)
\* the largest rubber-band side tried, in display pixels
MaxBand == 2000

\* original sizes (w, h) of the picture in the dialog; each gives a pixmap
\* of at least one pixel a side
CropOriginals == {<<1, 1>>, <<12, 11>>, <<1000, 500>>, <<1600, 1200>>, <<900, 700>>}

\* the rubber bands tried: None, empty ones, bands that start left of or
\* above the picture, bands that leave it on the right or below
CropBands ==
    {Some(Rect(x, y, w, h)) :
        x \in {-7, 0, 5, 900}, y \in {-7, 0, 650},
        w \in {0, 1, 6, 257, MaxBand}, h \in {1, 6, MaxBand}}
      \cup {Some(Rect(100, 50, 100, 50)), None}

CropInit ==
    /\ AppInit
    /\ args \in CropBands \X CropOriginals
    /\ ret = None
    /\ pc = "call"

\* CropDialog(cv_image) for a picture of args[2]: the pixmap's size, from
\* which lines 176-177 take scale_x and scale_y, joins the arguments
CropDialogInit ==
    /\ pc = "call"
    /\ \E v \in [1..2 -> {0, 1}] :
        LET ds == DisplaySize(args[2][1], args[2][2], v)
        IN  args' = <<args[1], args[2], <<ds.w, ds.h>>>>
    /\ ret' = None
    /\ pc' = "shown"
    /\ UNCHANGED appvars

\* get_crop_coordinates() of that dialog with the rubber band args[1]
CallGetCropCoordinates ==
    /\ pc = "shown"
    /\ \E u \in [1..4 -> {0, 1}] :
        ret' = Some(get_crop_coordinates(args[1], args[2][1], args[2][2],
                                         args[3][1], args[3][2], u))
    /\ pc' = "done"
    /\ UNCHANGED <<args, appvars>>

CropNext == CropDialogInit \/ CallGetCropCoordinates

SpecCrop == CropInit /\ [][CropNext]_vars

(***************************************************************************)
(* Properties                                                              *)
(***************************************************************************)
\* ceil(n / k) for k >= 1
CeilDiv(n, k) == (n + k - 1) \div k

\* the column of a scan line
LineColumn(l) == l[1][1]

\* C1: after a call of findcontours that returned, with n candidate lines
\* (one per non-empty column) and line_step k, the emitted lines are the
\* candidates at positions 0, k', 2k', ... (k' = k for k >= 1, 1 for k < 1),
\* in increasing column order; there are ceil(n / k') of them, and
\* line_step = 1 emits every candidate.
C1_ScanLineSubsampling ==
    (pc \in {"done", "again"} /\ Val(ret).ok) =>
        LET r == Val(ret)
            n == Len(r.line_coordinates)
            k == args[4]
            kk == IF k >= 1 THEN k ELSE 1
        IN  /\ Len(r.lines) = CeilDiv(n, kk)
            /\ \A j \in 1..Len(r.lines) : r.lines[j] = r.line_coordinates[(j - 1) * kk + 1]
            /\ \A i, j \in 1..Len(r.lines) :
                   i < j => LineColumn(r.lines[i]) < LineColumn(r.lines[j])
            /\ (k = 1 => r.lines = r.line_coordinates)

\* a call with more candidate lines than the step, the step not dividing
\* their number
C1_Witness ==
    /\ pc = "done"
    /\ Val(ret).ok
    /\ args[4] > 1
    /\ Len(Val(ret).line_coordinates) > args[4]
    /\ Len(Val(ret).line_coordinates) % args[4] # 0
    /\ Len(Val(ret).lines) > 1

\* the contour set stored in the application is missing or empty
NoContours == contours = None \/ Val(contours) = {}

\* C2: an export of the masked region with an empty or null contour set
\* fails: it writes no file and reports no success.
C2_EmptyExportFails ==
    (last.op = "save_selected_contours" /\ last.dialog = "accepted" /\ NoContours) =>
        /\ last.write # "ok"
        /\ last.raised
        /\ last.msg = "Export Error"

\* C3: an export of the masked region whose write returns failure fails:
\* the module function raises and the handler shows no success.
C3_FailedWriteFails ==
    (last.op = "save_selected_contours" /\ last.write = "failed") =>
        /\ last.raised
        /\ last.msg # "Export Successful"

\* the analysis result, the images and the parameters
AnalysisState ==
    <<result_img, contours, injury_img, cropped_control, threshvalue, linestep>>

\* C4: save_result reports failure, never success, when the write fails or
\* raises, and whatever the outcome it leaves the analysis result, the
\* images and the parameters as they were.
C4_SaveResultReportsAndPreserves ==
    [][last'.op = "save_result" =>
          /\ UNCHANGED AnalysisState
          /\ (last'.write \in {"failed", "raise"} => last'.msg = "Export Error")
          /\ (last'.msg = "Export Successful" => last'.write = "ok")]_vars

\* save_result ran on a stored composite and the write returned failure
C4_Witness ==
    /\ last.op = "save_result"
    /\ last.write = "failed"
    /\ last.msg = "Export Error"
    /\ result_img # None

\* C5: show_result either stores the composite and the contour set of one
\* and the same run of findcontours on the current images and parameters,
\* or, when findcontours raises, stores neither: both keep their values.
C5_AnalysisAllOrNothing ==
    [][last'.op = "show_result" =>
          IF last'.raised \/ last'.msg # "Analysis Complete"
          THEN UNCHANGED <<result_img, contours>>
          ELSE LET run == AnalysisTable[<<injury_img, cropped_control, threshvalue, linestep>>]
               IN  /\ run.ok
                   /\ result_img' = run.combined
                   /\ contours' = run.contours
                   /\ result_img' # None
                   /\ contours' # None]_vars

\* findcontours raised in a re-analysis: the earlier result is still stored
C5_Witness ==
    /\ last.op = "show_result"
    /\ last.raised
    /\ result_img # None
    /\ contours # None

\* C6: for a non-empty rubber band, wherever it lies, and an original of
\* ow x oh pixels, get_crop_coordinates returns (x, y, w, h) with
\* 0 <= x <= ow - 1, 0 <= y <= oh - 1, w > 0, h > 0, x + w <= ow, y + h <= oh.
C6_CropInsideOriginal ==
    (pc = "done" /\ args[1] # None /\ ~RectIsEmpty(Val(args[1]))) =>
        /\ Val(ret) # None
        /\ LET c == Val(Val(ret))
               ow == args[2][1]
               oh == args[2][2]
           IN  /\ 0 <= c[1] /\ c[1] <= ow - 1
               /\ 0 <= c[2] /\ c[2] <= oh - 1
               /\ c[3] > 0 /\ c[4] > 0
               /\ c[1] + c[3] <= ow
               /\ c[2] + c[4] <= oh

\* a band that starts left of and above a scaled picture and leaves it on
\* the right and below: the result is cut to the whole original
C6_Witness ==
    /\ pc = "done"
    /\ args[1] # None
    /\ Val(args[1]).x < 0 /\ Val(args[1]).y < 0
    /\ Val(args[1]).width = MaxBand /\ Val(args[1]).height = MaxBand
    /\ args[2] = <<900, 700>>
    /\ Val(ret) = Some(<<0, 0, 900, 700>>)

\* C7: crop_control rejects a rectangle whose width or height in original
\* space is at most 10, and accepts every rectangle of width and height at
\* least 11, which becomes the control region.
C7_CropSizeFloor ==
    (last.op = "crop_control" /\ last.coords # None) =>
        LET c == Val(last.coords)
        IN  IF c[3] <= 10 \/ c[4] <= 10
            THEN last.msg = "Invalid Selection"
            ELSE /\ c[3] >= 11 /\ c[4] >= 11
                 /\ last.msg = "Success"
                 /\ result_btn
                 /\ cropped_control =
                        Some(Crop(Val(injury_img), c[1], c[2], c[3], c[4]))
                 /\ Val(cropped_control).w = c[3]
                 /\ Val(cropped_control).h = c[4]

\* the rectangle (w = 10, h = 20) was rejected
C7_Witness ==
    /\ last.op = "crop_control"
    /\ last.coords = Some(<<0, 0, 10, 20>>)
    /\ last.msg = "Invalid Selection"

\* C8: when crop_control selects nothing (dialog cancelled, no selection,
\* empty selection, region too small) the images, the analysis result, the
\* parameters and the buttons are as before.
C8_RejectedCropPreservesState ==
    [][(last'.op = "crop_control" /\ last'.msg \in {"", "No Selection", "Invalid Selection"}) =>
          UNCHANGED <<AnalysisState, crop_btn, result_btn, save_btn, save_contour_btn,
                      disk>>]_vars

\* a region too small was rejected while a control region and an analysis
\* result were stored
C8_Witness ==
    /\ last.op = "crop_control"
    /\ last.msg = "Invalid Selection"
    /\ cropped_control # None
    /\ result_img # None
    /\ result_btn /\ save_btn /\ save_contour_btn

\* the foreground points of the mask a call computed
MaskOf(r) == Foreground(Val(r.thresh))

\* C9: every mask pixel is 0 or 255, it is 255 exactly when the smoothed
\* difference is above the threshold, and with the images fixed a higher
\* threshold gives a subset of the foreground pixels.
C9_ThresholdMonotone ==
    [][(ret' # None /\ Val(ret').thresh # None) =>
          LET r == Val(ret')
              m == Val(r.thresh)
              b == Val(r.blur)
          IN  /\ \A p \in Points(m.h, m.w) :
                    /\ m.px[p[2]][p[1]] \in {0, 255}
                    /\ m.px[p[2]][p[1]] = 255 <=> b.px[p[2]][p[1]] > args'[3]
              /\ (/\ ret # None
                  /\ Val(ret).thresh # None
                  /\ args'[1] = args[1] /\ args'[2] = args[2]
                  /\ args'[3] >= args[3])
                     => /\ MaskOf(r) \subseteq MaskOf(Val(ret))
                        /\ Cardinality(MaskOf(r)) <= Cardinality(MaskOf(Val(ret)))]_vars

\* a repeated call at a higher threshold whose mask still has foreground
\* pixels, but not all it could have
C9_Witness ==
    /\ pc = "again"
    /\ Val(ret).thresh # None
    /\ MaskOf(Val(ret)) # {}
    /\ MaskOf(Val(ret)) # Points(Val(Val(ret).thresh).h, Val(Val(ret).thresh).w)
    /\ args[3] = InitThresh

\* C10: when the control, resized to the subject's size, equals the subject,
\* the difference map is all zero, the mask has no foreground pixel, the
\* call returns an empty contour set and emits no scan line, at every
\* threshold.
C10_IdenticalImagesNoContours ==
    (/\ pc \in {"done", "again"}
     /\ args[1] # None /\ args[2] # None
     /\ Resize(Val(args[2]), Val(args[1]).w, Val(args[1]).h) = Val(args[1])) =>
        LET r == Val(ret)
        IN  /\ r.ok
            /\ r.difference # None
            /\ \A p \in Points(Val(args[1]).h, Val(args[1]).w) :
                   Val(r.difference).px[p[2]][p[1]] = 0
            /\ MaskOf(r) = {}
            /\ r.contours = Some({})
            /\ r.lines = <<>>

\* the rubber band r lies inside a displayed image of size d = <<dw, dh>>
InsideDisplay(r, d) ==
    /\ ~RectIsEmpty(r)
    /\ r.x >= 0 /\ r.y >= 0
    /\ r.x + r.width <= d[1]
    /\ r.y + r.height <= d[2]

\* c is a value of int(a * scale) for scale = n / d and a >= 0: the whole
\* part of a * n / d or, when the quotient n / d is rounded and a * n / d is
\* a whole number, possibly one less
IntTimesScale(a, n, d, c) ==
    \/ c = (a * n) \div d
    \/ /\ (a * n) % d = 0
       /\ ~IsPow2(d \div Gcd(n, d))
       /\ a * n > 0
       /\ c = (a * n) \div d - 1

\* C11: get_crop_coordinates multiplies each display coordinate and dimension
\* by its axis scale factor (original / display): for original (1000, 500)
\* and display (500, 250) the rectangle (100, 50, 100, 50) maps to
\* (200, 100, 200, 100), and every rectangle inside the displayed image maps
\* to (int(x * scale_x), int(y * scale_y), int(w * scale_x), int(h * scale_y)),
\* which the clamps leave as it is.
C11_CropTransformScales ==
    /\ \A u \in [1..4 -> {0, 1}] :
           get_crop_coordinates(Some(Rect(100, 50, 100, 50)), 1000, 500, 500, 250, u)
               = Some(<<200, 100, 200, 100>>)
    /\ (pc = "done" /\ args[1] # None /\ InsideDisplay(Val(args[1]), args[3])) =>
           /\ Val(ret) # None
           /\ LET c == Val(Val(ret))
                  r == Val(args[1])
              IN  /\ IntTimesScale(r.x, args[2][1], args[3][1], c[1])
                  /\ IntTimesScale(r.y, args[2][2], args[3][2], c[2])
                  /\ IntTimesScale(r.width, args[2][1], args[3][1], c[3])
                  /\ IntTimesScale(r.height, args[2][2], args[3][2], c[4])

\* the rectangle (100, 50, 100, 50) inside a picture of 1600 x 1200 shown at
\* 800 x 600 (both scale factors 2.0) came back as (200, 100, 200, 100)
C11_Witness ==
    /\ pc = "done"
    /\ args = <<Some(Rect(100, 50, 100, 50)), <<1600, 1200>>, <<800, 600>>>>
    /\ Val(ret) = Some(<<200, 100, 200, 100>>)

\* the points of the fill mask in column x
MaskColumn(r, x) == {p \in r.mask : p[1] = x}

\* C12: after a call of findcontours that returned, every column holding a
\* foreground pixel of the fill mask is exactly one candidate line, with
\* exactly one point per mask-foreground row of that column, whatever the
\* subject's pixel values there (luminance 0 included).
C12_ScanLinesFromFillMask ==
    (pc \in {"done", "again"} /\ Val(ret).ok) =>
        LET r == Val(ret)
            cols == {p[1] : p \in r.mask}
            cand == r.line_coordinates
        IN  /\ Len(cand) = Cardinality(cols)
            /\ \A x \in cols : \E i \in 1..Len(cand) : LineColumn(cand[i]) = x
            /\ \A i \in 1..Len(cand) :
                   /\ {cand[i][j] : j \in 1..Len(cand[i])} = MaskColumn(r, LineColumn(cand[i]))
                   /\ Len(cand[i]) = Cardinality(MaskColumn(r, LineColumn(cand[i])))

\* C13: findcontours accepts a single-channel subject: the luminance
\* conversion passes the subject through unchanged (the difference map is
\* taken against the subject itself) and the call returns a composite and a
\* contour set instead of raising.
C13_GraySubjectAccepted ==
    (/\ pc \in {"done", "again"}
     /\ args[1] # None /\ args[2] # None
     /\ Val(args[1]).ch = 1) =>
        LET r == Val(ret)
            subject == Val(args[1])
            control == Resize(Val(args[2]), subject.w, subject.h)
        IN  /\ r.difference = Some(AbsDiff(ToGray(control), subject))
            /\ r.ok
            /\ r.err = ""
            /\ r.combined # None
            /\ r.contours # None

C15_WorkflowGating ==
    /\ crop_btn => injury_img # None
    /\ result_btn => (injury_img # None /\ cropped_control # None)
    /\ (save_btn \/ save_contour_btn) => (result_img # None /\ contours # None)

\* a file that is no image was picked while all four buttons were enabled
C15_Witness ==
    /\ last.op = "upload_injury"
    /\ last.msg = "Error"
    /\ crop_btn /\ result_btn /\ save_btn /\ save_contour_btn

\* the analyses of photo i: the argument tuples findcontours can get for
\* it, over the control regions of i and the parameters
AnalysesOf ==
    [i \in AppImages |->
        {<<Some(i), Some(c), t, l>> :
            c \in AppCrops(i), t \in ThreshVals, l \in LineStepVals}]

\* the stored composite and contour set are those of an analysis of the
\* loaded injury_img, for some control region of it and some parameters
FromLoadedImage ==
    /\ injury_img # None
    /\ result_img # None
    /\ \E k \in AnalysesOf[Val(injury_img)] :
           /\ AnalysisTable[k].ok
           /\ result_img = AnalysisTable[k].combined
           /\ contours = AnalysisTable[k].contours

\* C16: an upload that loads an image disables the Analyze button and both
\* export buttons and clears cropped_control, and whenever an export button
\* is enabled the stored composite and contour set come from an analysis of
\* the injury_img loaded now.
C16_ExportsBelongToLoadedImage ==
    [][/\ (last'.op = "upload_injury" /\ last'.dialog = "accepted" /\ last'.msg = "") =>
             /\ ~save_btn' /\ ~save_contour_btn' /\ ~result_btn'
             /\ cropped_control' = None
       /\ (save_btn' \/ save_contour_btn') => FromLoadedImage']_vars

\* a photo was loaded while the result of an analysis of another photo is
\* stored: the exports are disabled
C16_Witness ==
    /\ last.op = "upload_injury"
    /\ last.dialog = "accepted"
    /\ last.msg = ""
    /\ result_img # None
    /\ ~FromLoadedImage
    /\ ~save_btn /\ ~save_contour_btn

\* C17: whenever an export button is enabled the stored composite and
\* contour set are those of an analysis of the current injury_img with the
\* current cropped_control, threshold and line step.
C17_ExportsBelongToCurrentInputs ==
    (save_btn \/ save_contour_btn) =>
        /\ injury_img # None
        /\ cropped_control # None
        /\ LET run == AnalysisTable[<<injury_img, cropped_control, threshvalue, linestep>>]
           IN  /\ run.ok
               /\ result_img = run.combined
               /\ contours = run.contours

====
